---------------------------- MODULE Spec2Model ----------------------------
(***************************************************************************)
(* A model of the spreadsheet engine of basic-react-spreadsheet: the Cell  *)
(* and Sheet classes (observer pattern, circular dependency check,         *)
(* incremental re-evaluation) and the helpers of util.js they rely on.     *)
(*                                                                         *)
(* A reference ("B2") is modelled by its coordinates <<row, col>>.  A      *)
(* formula text is modelled by its sequence of tokens; the formulas of the *)
(* model have the shapes  =atom  and  =atom op atom,  an atom being a      *)
(* reference, a number or SUM(range).                                      *)
(***************************************************************************)
EXTENDS Integers, Sequences, FiniteSets, TLC

\* The grid of the model: rows 1..MaxRow, columns 1..MaxCol.
MaxRow == 2
MaxCol == 2
\* The number of user operations (edits, pastes) of one behaviour.
MaxSteps == 2

Rows == 1..MaxRow
Cols == 1..MaxCol
Refs == Rows \X Cols

\* The placeholder "[INVALID REF]" in the content of a cell, as a coordinate.
BadRef == <<0, 0>>

\* util.js: "[invalid ref]" as newRefForCopy returns it, in lower case;
\* BadRef is "[INVALID REF]", the placeholder in upper case.  Neither is
\* matched by REF_REGEXP.
InvalidRefMarker == <<-1, -1>>
IsPlaceholder(r) == r \in {BadRef, InvalidRefMarker}

\* A toUpperCase that leaves the text as it is.
toUpperCaseKeeps(tok) == tok

\* String.prototype.toUpperCase on one token of a formula (the references
\* of the model are in upper case already).
toUpperCase(tok) ==
  [tok EXCEPT !.a = IF @ = InvalidRefMarker THEN BadRef ELSE @,
              !.b = IF @ = InvalidRefMarker THEN BadRef ELSE @]

-----------------------------------------------------------------------------
(* Sequences used as JavaScript Sets (insertion ordered, no duplicates).   *)

Range(s) == {s[i] : i \in DOMAIN s}

InSeq(x, s) == \E i \in DOMAIN s : s[i] = x

\* Set.prototype.add
SetAdd(s, x) == IF InSeq(x, s) THEN s ELSE Append(s, x)

\* Set.prototype.delete
SetDelete(s, x) == SelectSeq(s, LAMBDA y : y # x)

RECURSIVE Dedup(_)
Dedup(s) ==
  IF s = <<>> THEN <<>>
  ELSE SetAdd(Dedup(SubSeq(s, 1, Len(s) - 1)), s[Len(s)])

RECURSIVE Concat(_)
Concat(ss) == IF ss = <<>> THEN <<>> ELSE Head(ss) \o Concat(Tail(ss))

setDiff(oneSet, anotherSet) == SelectSeq(oneSet, LAMBDA x : ~InSeq(x, anotherSet))

-----------------------------------------------------------------------------
(* Values: a cell's content and its evaluated value.                       *)
(*   t = "num"   the number n                                              *)
(*   t = "nan"   NaN                                                       *)
(*   t = "inf"   Infinity                                                  *)
(*   t = "frac"  a number that is not whole                                *)
(*   t = "undef" undefined (a cell created by findOrCreateCell)            *)
(*   t = "null"  null (a cell vacated by moveTo)                           *)
(*   t = "blank" the empty string                                          *)
(*   t = "text"  a non-numeric text                                        *)
(*   t = "f"     a formula, f its tokens (the text after "=")              *)

Num(n) == [t |-> "num", n |-> n, f |-> <<>>]
NaN == [t |-> "nan", n |-> 0, f |-> <<>>]
Infinity == [t |-> "inf", n |-> 0, f |-> <<>>]
Fraction == [t |-> "frac", n |-> 0, f |-> <<>>]
Undef == [t |-> "undef", n |-> 0, f |-> <<>>]
Null == [t |-> "null", n |-> 0, f |-> <<>>]
Blank == [t |-> "blank", n |-> 0, f |-> <<>>]
Text == [t |-> "text", n |-> 0, f |-> <<>>]
Formula(toks) == [t |-> "f", n |-> 0, f |-> toks]

(* Tokens of a formula text.                                               *)
(*   k = "ref"  a reference a (BadRef: the placeholder)                    *)
(*   k = "sum"  SUM(a:b)                                                   *)
(*   k = "num"  the number n                                               *)
(*   k = "+", k = "*", k = "/"  an operator                                *)
Ref(a) == [k |-> "ref", a |-> a, b |-> a, n |-> 0]
Sum(a, b) == [k |-> "sum", a |-> a, b |-> b, n |-> 0]
Con(n) == [k |-> "num", a |-> BadRef, b |-> BadRef, n |-> n]
Plus == [k |-> "+", a |-> BadRef, b |-> BadRef, n |-> 0]
Times == [k |-> "*", a |-> BadRef, b |-> BadRef, n |-> 0]
Over == [k |-> "/", a |-> BadRef, b |-> BadRef, n |-> 0]

IsAtom(tok) == tok.k \in {"ref", "sum", "num"}

\* util.js: isFormula
isFormula(value) == value.t = "f"

\* util.js: isEmpty
isEmpty(value) == value.t \in {"undef", "null", "blank"}

\* util.js: expandRange, flattened (.flat(2)): the cells of a:b, row-major;
\* empty when the bottom-right is above or left of the top-left.
expandRange(a, b) ==
  IF b[1] < a[1] \/ b[2] < a[2] THEN <<>>
  ELSE [i \in 1..((b[1] - a[1] + 1) * (b[2] - a[2] + 1)) |->
          <<a[1] + ((i - 1) \div (b[2] - a[2] + 1)),
            a[2] + ((i - 1) % (b[2] - a[2] + 1))>>]

\* RANGE_REGEXP matches a range token only when both ends are references.
IsRangeToken(tok) == tok.k = "sum" /\ ~IsPlaceholder(tok.a) /\ ~IsPlaceholder(tok.b)

\* The references REF_REGEXP finds in one token of expandRanges(formula).
TokenRefsExpanded(tok) ==
  IF tok.k = "ref" THEN (IF IsPlaceholder(tok.a) THEN <<>> ELSE <<tok.a>>)
  ELSE IF tok.k = "sum"
       THEN (IF IsRangeToken(tok) THEN expandRange(tok.a, tok.b)
             ELSE SelectSeq(<<tok.a, tok.b>>, LAMBDA r : ~IsPlaceholder(r)))
       ELSE <<>>

\* The references REF_REGEXP finds in one token of the formula as written.
TokenRefsRaw(tok) ==
  IF tok.k = "ref" THEN (IF IsPlaceholder(tok.a) THEN <<>> ELSE <<tok.a>>)
  ELSE IF tok.k = "sum"
       THEN SelectSeq(<<tok.a, tok.b>>, LAMBDA r : ~IsPlaceholder(r))
       ELSE <<>>

\* util.js: findRefsInFormula(expandRanges(formula)), as Cell.setValue uses it.
findRefsInFormula(toks) ==
  Dedup(Concat([i \in DOMAIN toks |-> TokenRefsExpanded(toks[i])]))

\* util.js: findRefsInFormula(formula), as Cell.copyTo uses it.
findRefsInRawFormula(toks) ==
  Dedup(Concat([i \in DOMAIN toks |-> TokenRefsRaw(toks[i])]))

-----------------------------------------------------------------------------
(* Cells and the sheet.  sheet.cells is a function on Refs; a coordinate    *)
(* with no cell holds NoCell.  subjects and observers are JavaScript Sets   *)
(* of references, kept as duplicate-free sequences in insertion order.      *)

Msg(m, r) == [m |-> m, r |-> r]
NoMsg == Msg("undefined", BadRef)
NullMsg == Msg("null", BadRef)
CircularMsg == Msg("Circular dependency", BadRef)
InvalidFormulaMsg == Msg("Invalid formula", BadRef)
InvalidRefMsg(r) == Msg("Invalid ref", r)

\* class Cell, constructor, before its call of setValue.
NewCell ==
  [exists |-> TRUE, value |-> Undef, evaluatedValue |-> Undef,
   subjects |-> <<>>, observers |-> <<>>, modified |-> FALSE,
   evaluated |-> FALSE, invalid |-> FALSE, errorMessage |-> NoMsg]

NoCell == [NewCell EXCEPT !.exists = FALSE]

\* A findOrCreateCell that only finds.
findOrCreateCellFinds(cells, ref) == cells

\* Sheet.findOrCreateCell(ref) with no valueIfNew: the constructor's
\* setValue(undefined) changes nothing.
findOrCreateCell(cells, ref) ==
  IF cells[ref].exists THEN cells ELSE [cells EXCEPT ![ref] = NewCell]

\* A _registerObserver that adds nothing.
registerObserverForgets(cells, ref, observer) == cells

\* Cell._registerObserver
registerObserver(cells, ref, observer) ==
  [cells EXCEPT ![ref].observers = SetAdd(@, observer)]

\* Cell._unregisterObserver
unregisterObserver(cells, ref, observer) ==
  [cells EXCEPT ![ref].observers = SetDelete(@, observer)]

\* A _hasCircularDependency that finds no cycle.
hasCircularDependencyNever(cells, self, subjects, visited) ==
  [found |-> FALSE, cells |-> cells, visited |-> visited]

\* A _hasCircularDependency that looks at the new subjects only, not at the
\* subjects of the subjects.
hasCircularDependencyDirect(cells, self, subjects, i, visited) ==
  [found |-> FALSE, cells |-> cells, visited |-> visited]

\* Cell._hasCircularDependency: a depth-first walk of the subjects with a
\* shared visited list; it creates the cells it walks through.
\* The result is [found, cells, visited].
RECURSIVE hasCircularDependency(_, _, _, _)
RECURSIVE hasCircularDependencySome(_, _, _, _, _)
hasCircularDependency(cells, self, subjects, visited) ==
  IF InSeq(self, subjects)
  THEN [found |-> TRUE, cells |-> cells, visited |-> visited]
  ELSE hasCircularDependencySome(cells, self, subjects, 1, visited)

hasCircularDependencySome(cells, self, subjects, i, visited) ==
  IF i > Len(subjects)
  THEN [found |-> FALSE, cells |-> cells, visited |-> visited]
  ELSE IF InSeq(subjects[i], visited)
       THEN hasCircularDependencySome(cells, self, subjects, i + 1, visited)
       ELSE LET c1 == findOrCreateCell(cells, subjects[i])
                r == hasCircularDependency(c1, self, c1[subjects[i]].subjects,
                                           Append(visited, subjects[i]))
            IN IF r.found THEN r
               ELSE hasCircularDependencySome(r.cells, self, subjects, i + 1,
                                              r.visited)

\* Cell.descendantObservers: the cell itself and the cells reached through
\* observers, with a shared visited list.  The result is [set, visited].
\* A walk that stops at the observers of the cell.
descendantObserversFromDirect(cells, ref, visited) ==
  [set |-> {ref} \cup Range(cells[ref].observers), visited |-> visited]

RECURSIVE descendantObserversFrom(_, _, _)
RECURSIVE descendantObserversFlatMap(_, _, _, _)
descendantObserversFrom(cells, ref, visited) ==
  LET r == descendantObserversFlatMap(cells, cells[ref].observers, 1, visited)
  IN [set |-> {ref} \cup r.set, visited |-> r.visited]

\* A flatMap that walks through the cells it has visited already.
descendantObserversFlatMapRevisit(cells, obs, i, visited) ==
  IF i > Len(obs) THEN [set |-> {}, visited |-> visited]
  ELSE [set |-> descendantObserversFrom(cells, obs[i], Append(visited, obs[i])).set
                  \cup descendantObserversFlatMap(
                         cells, obs, i + 1,
                         descendantObserversFrom(cells, obs[i],
                                                 Append(visited, obs[i])).visited).set,
        visited |-> descendantObserversFlatMap(
                      cells, obs, i + 1,
                      descendantObserversFrom(cells, obs[i],
                                              Append(visited, obs[i])).visited).visited]

descendantObserversFlatMap(cells, obs, i, visited) ==
  IF i > Len(obs) THEN [set |-> {}, visited |-> visited]
  ELSE IF InSeq(obs[i], visited)
       THEN descendantObserversFlatMap(cells, obs, i + 1, visited)
       ELSE LET r == descendantObserversFrom(cells, obs[i], Append(visited, obs[i]))
                rest == descendantObserversFlatMap(cells, obs, i + 1, r.visited)
            IN [set |-> r.set \cup rest.set, visited |-> rest.visited]

descendantObservers(cells, ref) == descendantObserversFrom(cells, ref, <<>>).set

-----------------------------------------------------------------------------
(* Evaluation of a formula: Cell._parseFormula substitutes the subjects'    *)
(* values in the text, eval computes the result.                            *)

\* The outcome of an expression that throws.
Fail == [t |-> "fail", n |-> 0, f |-> <<>>]

\* A _valueForFormulaCalculation that hands out the evaluated value of any
\* subject.
valueForFormulaCalculationRaw(cell, defaultValue) == cell.evaluatedValue

\* Cell._valueForFormulaCalculation
valueForFormulaCalculation(cell, defaultValue) ==
  IF isEmpty(cell.value) THEN defaultValue
  ELSE IF isFormula(cell.value) THEN cell.evaluatedValue
  ELSE IF cell.value.t = "text" THEN defaultValue
  ELSE cell.evaluatedValue

\* ToNumber of an operand of + and *: -1 stands for NaN.
ToNumber(v) ==
  IF v.t = "num" THEN v.n ELSE IF v.t = "null" THEN 0 ELSE -1

\* The number an operand stands for: a whole number, Infinity, a number
\* that is not whole, or NaN.
ExtNumber(v) ==
  IF v.t \in {"inf", "frac"} THEN v
  ELSE IF ToNumber(v) < 0 THEN NaN ELSE Num(ToNumber(v))

\* x / y of JavaScript numbers, neither of them NaN or a fraction: a
\* division by zero does not throw, it gives Infinity, or NaN for 0 / 0.
Quotient(x, y) ==
  IF x = Infinity THEN (IF y = Infinity THEN NaN ELSE Infinity)
  ELSE IF y = Infinity THEN Num(0)
  ELSE IF y.n = 0 THEN (IF x.n = 0 THEN NaN ELSE Infinity)
  ELSE IF x.n % y.n = 0 THEN Num(x.n \div y.n) ELSE Fraction

\* x op y of JavaScript numbers (none of them negative in the model).  The
\* model's formulas divide by the constant 0 only, so no fraction arises;
\* an operation on a fraction is kept as a fraction.
Arith(k, x, y) ==
  IF x = NaN \/ y = NaN THEN NaN
  ELSE IF x = Fraction \/ y = Fraction THEN Fraction
  ELSE IF k = "+"
  THEN (IF x = Infinity \/ y = Infinity THEN Infinity ELSE Num(x.n + y.n))
  ELSE IF k = "*"
  THEN (IF x = Infinity \/ y = Infinity
        THEN (IF x = Num(0) \/ y = Num(0) THEN NaN ELSE Infinity)
        ELSE Num(x.n * y.n))
  ELSE Quotient(x, y)

\* SUM over the substituted members of a range: a text throws (an unknown
\* identifier), an empty string leaves a hole that flat() drops.
RECURSIVE SumValues(_, _)
SumValues(vals, acc) ==
  IF vals = <<>> THEN acc
  ELSE IF Head(vals).t = "text" \/ acc = Fail THEN Fail
  ELSE IF Head(vals).t = "blank" THEN SumValues(Tail(vals), acc)
  ELSE SumValues(Tail(vals), Arith("+", acc, ExtNumber(Head(vals))))

\* The value of one atom after templateReplace: a reference that is not one
\* of the cell's subjects stays in the text and throws when evaluated.
AtomValue(tok, subjects, cells) ==
  IF tok.k = "num" THEN Num(tok.n)
  ELSE IF tok.k = "ref"
  THEN IF IsPlaceholder(tok.a) \/ ~InSeq(tok.a, subjects) THEN Fail
       ELSE IF valueForFormulaCalculation(cells[tok.a], Num(0)).t = "text"
            THEN Fail
            ELSE valueForFormulaCalculation(cells[tok.a], Num(0))
  ELSE IF ~IsRangeToken(tok) THEN Fail
  ELSE IF \E r \in Range(expandRange(tok.a, tok.b)) : ~InSeq(r, subjects)
       THEN Fail
       ELSE SumValues([i \in DOMAIN expandRange(tok.a, tok.b) |->
                         valueForFormulaCalculation(
                           cells[expandRange(tok.a, tok.b)[i]], Num(0))],
                      Num(0))

\* eval of  l op r.  An empty string on the left of + leaves a unary plus,
\* anywhere else a syntax error.
BinaryValue(l, op, r) ==
  IF l = Fail \/ r = Fail \/ r.t = "blank" THEN Fail
  ELSE IF l.t = "blank"
       THEN (IF op.k # "+" THEN Fail ELSE ExtNumber(r))
  ELSE Arith(op.k, ExtNumber(l), ExtNumber(r))

\* eval(parsedFormula) for the formula shapes of the model.
EvalExpression(toks, subjects, cells) ==
  IF Len(toks) = 1 /\ IsAtom(toks[1])
  THEN (IF AtomValue(toks[1], subjects, cells).t = "blank" THEN Undef
        ELSE AtomValue(toks[1], subjects, cells))
  ELSE IF Len(toks) = 3 /\ IsAtom(toks[1]) /\ ~IsAtom(toks[2]) /\ IsAtom(toks[3])
  THEN BinaryValue(AtomValue(toks[1], subjects, cells), toks[2],
                   AtomValue(toks[3], subjects, cells))
  ELSE Fail

\* The formula branch of Cell._evaluateValue: [evaluatedValue, invalid,
\* errorMessage] after _parseFormula and eval.
FirstInvalid(subjects, cells) ==
  CHOOSE i \in DOMAIN subjects :
    /\ cells[subjects[i]].invalid
    /\ \A j \in 1..(i - 1) : ~cells[subjects[j]].invalid

EvalFormula(cells, ref) ==
  LET c == cells[ref]
      r == EvalExpression(c.value.f, c.subjects, cells)
  IN IF \E i \in DOMAIN c.subjects : cells[c.subjects[i]].invalid
     THEN [evaluatedValue |-> Null, invalid |-> TRUE,
           errorMessage |->
             InvalidRefMsg(c.subjects[FirstInvalid(c.subjects, cells)])]
     ELSE IF r = Fail
          THEN [evaluatedValue |-> Null, invalid |-> TRUE,
                errorMessage |-> InvalidFormulaMsg]
          ELSE [evaluatedValue |-> r, invalid |-> FALSE,
                errorMessage |-> NullMsg]

\* A !== that holds of any two values.
StrictNotEqualAlways(a, b) == TRUE

\* a !== b
StrictNotEqual(a, b) == a # b \/ a.t = "nan"

-----------------------------------------------------------------------------
(* The write and evaluate protocol.  A world W = [cells, log, marks, oob]   *)
(* is the sheet together with the record of what the running operation did  *)
(* (oob is explained with copy and move):                                   *)
(*   e = "pass"     setValue of r starts its evaluation (ok: r and all its  *)
(*                  descendant observers had evaluated = false)             *)
(*   e = "circular" setValue of r was rejected as circular                  *)
(*   e = "eval"     _evaluateValue computed r (ok: its value changed)       *)
(*   e = "already"  _evaluateValue found r evaluated and returned           *)
(*   e = "wait"     _notifyObservers skipped observer r                     *)

Event(e, r, ok) == [e |-> e, r |-> r, ok |-> ok]

\* What held when an event of the log happened, kept beside the log: for
\* "pass" a is the frontier (the descendant observers of the written cell)
\* and b the cells whose evaluated flag was true; for "eval" a is the
\* subjects of the evaluated cell; empty for the other events.
\* (The two sets are kept enumerated, member by member.)
Mark(a, b) == [a |-> {r : r \in a}, b |-> {r : r \in b}]
NoMark == Mark({}, {})

\* The world at the start of an operation.
World(cells) == [cells |-> cells, log |-> <<>>, marks |-> <<>>, oob |-> FALSE]

\* A _notifyObservers that finds nothing to wait for.
nonEvaluatedCommonCellsNone(cells, observer, updatedCellDescendantObservers) == {}

\* The observer's subjects among the descendant observers of the updated
\* cell that are not evaluated yet (nonEvaluatedCommonCells).
nonEvaluatedCommonCells(cells, observer, updatedCellDescendantObservers) ==
  {r \in Range(cells[observer].subjects) \cap updatedCellDescendantObservers :
     ~cells[r].evaluated}

\* A guard of _evaluateValue that never skips.
evaluatedNever(cell) == FALSE

\* The guard of Cell._evaluateValue: if (this.evaluated) return
evaluated(cell) == cell.evaluated

\* A _notifyObservers that notifies nobody.
notifyObserversNobody(W, ref, updatedCellDescendantObservers, i) == W

\* Cell._evaluateValue and Cell._notifyObservers (through _updateObserver).
RECURSIVE evaluateValue(_, _, _)
RECURSIVE notifyObservers(_, _, _, _)
evaluateValue(W, ref, updatedCellDescendantObservers) ==
  IF evaluated(W.cells[ref])
  THEN [W EXCEPT !.log = Append(@, Event("already", ref, TRUE)),
                 !.marks = Append(@, NoMark)]
  ELSE LET c == W.cells[ref]
           res == IF isFormula(c.value)
                  THEN EvalFormula(W.cells, ref)
                  ELSE [evaluatedValue |-> c.value, invalid |-> FALSE,
                        errorMessage |-> NullMsg]
           changed == StrictNotEqual(res.evaluatedValue, c.evaluatedValue)
           W1 == [W EXCEPT !.cells[ref].evaluated = TRUE,
                           !.cells[ref].invalid = res.invalid,
                           !.cells[ref].errorMessage = res.errorMessage,
                           !.cells[ref].evaluatedValue = res.evaluatedValue,
                           !.cells[ref].modified = (changed \/ @),
                           !.log = Append(@, Event("eval", ref, changed)),
                           !.marks = Append(@, Mark(Range(c.subjects), {}))]
       IN IF changed
          THEN notifyObservers(W1, ref, updatedCellDescendantObservers, 1)
          ELSE W1

notifyObservers(W, ref, updatedCellDescendantObservers, i) ==
  IF i > Len(W.cells[ref].observers) THEN W
  ELSE IF nonEvaluatedCommonCells(W.cells, W.cells[ref].observers[i],
                                  updatedCellDescendantObservers) # {}
       THEN notifyObservers(
              [W EXCEPT !.log = Append(@, Event("wait", W.cells[ref].observers[i], TRUE)),
                        !.marks = Append(@, NoMark)],
              ref, updatedCellDescendantObservers, i + 1)
       ELSE notifyObservers(
              evaluateValue(W, W.cells[ref].observers[i],
                            updatedCellDescendantObservers),
              ref, updatedCellDescendantObservers, i + 1)

\* subjectsAdded.forEach(findOrCreateCell(ref)._registerObserver(this.ref))
RECURSIVE registerAll(_, _, _)
registerAll(cells, added, self) ==
  IF added = <<>> THEN cells
  ELSE registerAll(registerObserver(findOrCreateCell(cells, Head(added)),
                                    Head(added), self),
                   Tail(added), self)

\* subjectsRemoved.forEach(findOrCreateCell(ref)._unregisterObserver(this.ref))
RECURSIVE unregisterAll(_, _, _)
unregisterAll(cells, removed, self) ==
  IF removed = <<>> THEN cells
  ELSE unregisterAll(unregisterObserver(findOrCreateCell(cells, Head(removed)),
                                        Head(removed), self),
                     Tail(removed), self)

\* The references of a new content as written, a range counting for its
\* two ends.
newSubjectsOfUnexpanded(newValue) ==
  IF isFormula(newValue) THEN findRefsInRawFormula(newValue.f) ELSE <<>>

\* The subjects of a new content (newSubjects of Cell.setValue).
newSubjectsOf(newValue) ==
  IF isFormula(newValue) THEN findRefsInFormula(newValue.f) ELSE <<>>

\* A rejection that drops the cell's subjects.
setValueCircularForgets(W, ref, cells) ==
  [W EXCEPT !.cells = [cells EXCEPT ![ref].evaluatedValue = Null,
                                    ![ref].invalid = TRUE,
                                    ![ref].errorMessage = CircularMsg,
                                    ![ref].subjects = <<>>],
            !.log = Append(@, Event("circular", ref, TRUE)),
            !.marks = Append(@, NoMark)]

\* Cell.setValue, the branch taken when the write is circular.
setValueCircular(W, ref, cells) ==
  [W EXCEPT !.cells = [cells EXCEPT ![ref].evaluatedValue = Null,
                                    ![ref].invalid = TRUE,
                                    ![ref].errorMessage = CircularMsg],
            !.log = Append(@, Event("circular", ref, TRUE)),
            !.marks = Append(@, NoMark)]

\* Cell.setValue, the branch taken when the write is not circular: install
\* the edges, then evaluate with the descendant observers.
setValueInstall(W, ref, cells, oldSubjects, newSubjects) ==
  LET cells2 == [cells EXCEPT ![ref].subjects = newSubjects]
      cells3 == registerAll(cells2, setDiff(newSubjects, oldSubjects), ref)
      cells4 == unregisterAll(cells3, setDiff(oldSubjects, newSubjects), ref)
      front == descendantObservers(cells4, ref)
  IN evaluateValue(
       [W EXCEPT !.cells = cells4,
                 !.log = Append(@, Event("pass", ref,
                                         \A r \in front : ~cells4[r].evaluated)),
                 !.marks = Append(@, Mark(front,
                                          {r \in Refs : cells4[r].evaluated}))],
       ref, front)

\* Cell.setValue(newValue)
setValue(W, ref, newValue) ==
  IF ~StrictNotEqual(W.cells[ref].value, newValue) THEN W
  ELSE LET cells1 == [W.cells EXCEPT ![ref].value = newValue,
                                     ![ref].modified = TRUE,
                                     ![ref].invalid = FALSE,
                                     ![ref].errorMessage = NullMsg]
           hcd == hasCircularDependency(cells1, ref, newSubjectsOf(newValue), <<>>)
       IN IF hcd.found
          THEN setValueCircular(W, ref, hcd.cells)
          ELSE setValueInstall(W, ref, hcd.cells, W.cells[ref].subjects,
                               newSubjectsOf(newValue))

\* Sheet.updateOrCreateCell: a new cell is constructed (NewCell) and its
\* constructor calls setValue.
updateOrCreateCell(W, ref, valueIfNew) ==
  setValue([W EXCEPT !.cells = findOrCreateCell(@, ref)], ref, valueIfNew)

\* Object.values(sheet.cells).forEach((cell) => (cell.evaluated = false))
resetEvaluated(cells) ==
  [r \in Refs |-> [cells[r] EXCEPT !.evaluated = FALSE]]

\* Sheet.clone with full cloning: every cell is copied with modified and
\* evaluated set to false.
clone(cells) ==
  [r \in Refs |-> [cells[r] EXCEPT !.evaluated = FALSE, !.modified = FALSE]]

ENABLE_SELECTIVE_CLONING == FALSE

\* A clone that copies no cell: the clone's cells are the sheet's own.
reusedCellsAll(cells) == {r \in Refs : cells[r].exists}

\* Sheet.clone: the cells the clone holds by reference in place of a copy
\* (none with full cloning).
reusedCells(cells) ==
  IF ENABLE_SELECTIVE_CLONING THEN {r \in Refs : cells[r].exists} ELSE {}

\* Cell.clone: a property that is a Set is copied (new Set), so the clone of
\* a cell shares no subjects or observers with the cell.
cloneCopiesSets == TRUE

\* The cells of a sheet as its holder sees them after an operation ran on
\* the clone: a cell the clone reuses shows what the operation did to it,
\* and so would a Set shared between a cell and its copy.
previousSheet(old, new, reused) ==
  [r \in Refs |->
     IF r \in reused THEN new[r]
     ELSE IF cloneCopiesSets THEN old[r]
     ELSE [old[r] EXCEPT !.subjects = new[r].subjects,
                         !.observers = new[r].observers]]

\* Selective cloning: the input handler's part and Sheet.clone as they run
\* when ENABLE_SELECTIVE_CLONING is true.
\* handleCellInputBlur: targetCells, the descendant observers of the cell
\* (none when there is no cell) and the cells modified or invalid.
targetCells(cells, ref) ==
  (IF cells[ref].exists THEN descendantObservers(cells, ref) ELSE {})
    \cup {r \in Refs : cells[r].exists /\ (cells[r].modified \/ cells[r].invalid)}

\* Sheet.clone(cellsToClone): a cell of cellsToClone is copied with modified
\* and evaluated set to false, any other cell is the sheet's own.
cloneSelective(cells, cellsToClone) ==
  [r \in Refs |-> IF r \in cellsToClone THEN clone(cells)[r] ELSE cells[r]]

\* The cells the clone holds by reference.
reusedCellsSelective(cells, cellsToClone) ==
  {r \in Refs : cells[r].exists /\ r \notin cellsToClone}

\* Cell.setValue(newValue, descendantObservers), the branch taken when the
\* write is not circular: descendantObservers is the caller's.
setValueInstallGiven(W, ref, cells, oldSubjects, newSubjects, front) ==
  LET cells2 == [cells EXCEPT ![ref].subjects = newSubjects]
      cells3 == registerAll(cells2, setDiff(newSubjects, oldSubjects), ref)
      cells4 == unregisterAll(cells3, setDiff(oldSubjects, newSubjects), ref)
  IN evaluateValue(
       [W EXCEPT !.cells = cells4,
                 !.log = Append(@, Event("pass", ref,
                                         \A r \in front : ~cells4[r].evaluated)),
                 !.marks = Append(@, Mark(front,
                                          {r \in Refs : cells4[r].evaluated}))],
       ref, front)

\* Cell.setValue(newValue, descendantObservers)
setValueGiven(W, ref, newValue, front) ==
  IF ~StrictNotEqual(W.cells[ref].value, newValue) THEN W
  ELSE LET cells1 == [W.cells EXCEPT ![ref].value = newValue,
                                     ![ref].modified = TRUE,
                                     ![ref].invalid = FALSE,
                                     ![ref].errorMessage = NullMsg]
           hcd == hasCircularDependency(cells1, ref, newSubjectsOf(newValue), <<>>)
       IN IF hcd.found
          THEN setValueCircular(W, ref, hcd.cells)
          ELSE setValueInstallGiven(W, ref, hcd.cells, W.cells[ref].subjects,
                                    newSubjectsOf(newValue), front)

\* Sheet.updateOrCreateCell(ref, valueIfNew, descendantObservers): a new
\* cell's constructor calls setValue without them.
updateOrCreateCellGiven(W, ref, valueIfNew, front) ==
  IF W.cells[ref].exists
  THEN setValueGiven(W, ref, valueIfNew, front)
  ELSE updateOrCreateCell(W, ref, valueIfNew)

\* Sheet._loadInitialCellData: the entries in order, the evaluated flags
\* reset after each.
RECURSIVE loadInitialCellData(_, _)
loadInitialCellData(cells, initialCellData) ==
  IF initialCellData = <<>> THEN cells
  ELSE loadInitialCellData(
         resetEvaluated(updateOrCreateCell(World(cells),
                                           Head(initialCellData)[1],
                                           Head(initialCellData)[2]).cells),
         Tail(initialCellData))

\* new Sheet(initialCellData)
Sheet(initialCellData) ==
  loadInitialCellData([r \in Refs |-> NoCell], initialCellData)

-----------------------------------------------------------------------------
(* Copy and move.  A world carries oob = TRUE once an operation would put   *)
(* a reference outside the grid of the model; such an operation is not      *)
(* part of the model.                                                       *)

InGrid(r) == r \in Refs \/ IsPlaceholder(r)

TokensInGrid(toks) ==
  \A i \in DOMAIN toks : InGrid(toks[i].a) /\ InGrid(toks[i].b)

\* util.js: newRefForCopy
newRefForCopy(ref, source, target) ==
  IF ref[1] + (target[1] - source[1]) < 1 \/ ref[2] + (target[2] - source[2]) < 1
  THEN InvalidRefMarker
  ELSE <<ref[1] + (target[1] - source[1]), ref[2] + (target[2] - source[2])>>

\* A replace that does not tell the references already replaced (lower-case)
\* from those still to replace.
replaceForCopyAgain(w, ref, value) ==
  [i \in DOMAIN w |->
     IF w[i].tok.k \notin {"ref", "sum"} THEN w[i]
     ELSE [w[i] EXCEPT !.tok.a = IF @ = ref THEN value ELSE @,
                       !.tok.b = IF @ = ref THEN value ELSE @]]

\* One step of the reduce of templateReplaceForCopy: the upper-case
\* occurrences of ref are replaced by the lower-case value.  w is the text
\* being rewritten, la and lb telling which ends are lower-case already.
replaceForCopy(w, ref, value) ==
  [i \in DOMAIN w |->
     IF w[i].tok.k \notin {"ref", "sum"} THEN w[i]
     ELSE LET hitA == ~w[i].la /\ w[i].tok.a = ref
              hitB == ~w[i].lb /\ w[i].tok.b = ref
          IN [tok |-> [w[i].tok EXCEPT !.a = IF hitA THEN value ELSE @,
                                       !.b = IF hitB THEN value ELSE @],
              la |-> (w[i].la \/ hitA), lb |-> (w[i].lb \/ hitB)]]

RECURSIVE templateReplaceForCopyReduce(_, _, _, _)
templateReplaceForCopyReduce(w, refs, source, target) ==
  IF refs = <<>> THEN w
  ELSE templateReplaceForCopyReduce(
         replaceForCopy(w, Head(refs), newRefForCopy(Head(refs), source, target)),
         Tail(refs), source, target)

\* util.js: templateReplaceForCopy(value, subjectNewRefs), subjectNewRefs
\* mapping each reference of the formula to newRefForCopy of it.
templateReplaceForCopy(toks, refs, source, target) ==
  LET w == templateReplaceForCopyReduce(
             [i \in DOMAIN toks |-> [tok |-> toks[i], la |-> FALSE, lb |-> FALSE]],
             refs, source, target)
  IN [i \in DOMAIN toks |-> toUpperCase(w[i].tok)]

\* The content Cell.copyTo writes to the target.
copiedValue(value, source, target) ==
  IF isFormula(value)
  THEN Formula(templateReplaceForCopy(value.f, findRefsInRawFormula(value.f),
                                      source, target))
  ELSE value

\* Cell.copyTo(targetRef)
copyTo(W, source, targetRef) ==
  IF ~TokensInGrid(copiedValue(W.cells[source].value, source, targetRef).f)
  THEN [W EXCEPT !.oob = TRUE]
  ELSE updateOrCreateCell([W EXCEPT !.cells = resetEvaluated(@)], targetRef,
                          copiedValue(W.cells[source].value, source, targetRef))

\* A templateReplaceForMove that replaces nothing.
templateReplaceForMoveKeeps(toks, source, target) == toks

\* util.js: templateReplaceForMove(template, {source: target}): the
\* references source that are not an end of a range.
templateReplaceForMove(toks, source, target) ==
  [i \in DOMAIN toks |->
     IF toks[i].k = "ref" /\ toks[i].a = source THEN Ref(target)
     ELSE toUpperCase(toks[i])]

\* new Set(textScan(observerValue, RANGE_REGEXP)): the ranges of a formula.
rangesOf(toks) ==
  LET rs == SelectSeq(toks, IsRangeToken)
  IN Dedup([i \in DOMAIN rs |-> <<rs[i].a, rs[i].b>>])

\* observerValue.replace(new RegExp(`\\b${range}\\b`, "g"), newFrom:newTo)
replaceRange(toks, range, source, target) ==
  [i \in DOMAIN toks |->
     IF IsRangeToken(toks[i]) /\ <<toks[i].a, toks[i].b>> = range
     THEN Sum(newRefForCopy(range[1], source, target),
              newRefForCopy(range[2], source, target))
     ELSE toks[i]]

\* A ranges.forEach that shifts every range, moved as a whole or not.
rewriteRangesAlways(toks, ranges, sourceRefs, source, target) ==
  [i \in DOMAIN toks |->
     IF IsRangeToken(toks[i])
     THEN Sum(newRefForCopy(toks[i].a, source, target),
              newRefForCopy(toks[i].b, source, target))
     ELSE toks[i]]

\* ranges.forEach of Cell.moveTo: a range all of whose cells are being
\* moved has both its ends shifted.
RECURSIVE rewriteRanges(_, _, _, _, _)
rewriteRanges(toks, ranges, sourceRefs, source, target) ==
  IF ranges = <<>> THEN toks
  ELSE rewriteRanges(
         IF Range(expandRange(Head(ranges)[1], Head(ranges)[2])) \subseteq sourceRefs
         THEN replaceRange(toks, Head(ranges), source, target)
         ELSE toks,
         Tail(ranges), sourceRefs, source, target)

\* The content Cell.moveTo gives to an observer of the moved cell.
movedObserverValue(value, source, target, sourceRefs) ==
  Formula(templateReplaceForMove(
            rewriteRanges(value.f, rangesOf(value.f), sourceRefs, source, target),
            source, target))

\* The body of this.observers.forEach of Cell.moveTo.
moveObserver(W, observer, source, target, sourceRefs) ==
  IF W.oob THEN W
  ELSE IF ~TokensInGrid(movedObserverValue(W.cells[observer].value, source,
                                           target, sourceRefs).f)
  THEN [W EXCEPT !.oob = TRUE]
  ELSE [setValue(W, observer,
                 movedObserverValue(W.cells[observer].value, source, target,
                                    sourceRefs))
          EXCEPT !.cells[observer].evaluated = FALSE]

RECURSIVE moveObservers(_, _, _, _, _)
moveObservers(W, observers, source, target, sourceRefs) ==
  IF observers = <<>> THEN W
  ELSE moveObservers(moveObserver(W, Head(observers), source, target, sourceRefs),
                     Tail(observers), source, target, sourceRefs)

\* The start of Cell.moveTo: the target is found or created and its
\* observers get evaluated = false.
resetTargetObservers(cells, targetRef) ==
  [r \in Refs |->
     IF InSeq(r, findOrCreateCell(cells, targetRef)[targetRef].observers)
     THEN [cells[r] EXCEPT !.evaluated = FALSE]
     ELSE findOrCreateCell(cells, targetRef)[r]]

\* Cell.moveTo, its first part: the target's observers are reset and the
\* source's content is written to the target.
moveToTarget(W, source, targetRef) ==
  updateOrCreateCell([W EXCEPT !.cells = resetTargetObservers(@, targetRef)],
                     targetRef, W.cells[source].value)

\* Cell.moveTo, its second part: this.observers.forEach.
moveToObservers(W, source, targetRef, sourceRefs) ==
  moveObservers(W, W.cells[source].observers, source, targetRef, sourceRefs)

\* Cell.moveTo, its last part: this.evaluated = false; this.setValue(null)
moveToSource(W, source) ==
  IF W.oob THEN W
  ELSE setValue([W EXCEPT !.cells[source].evaluated = FALSE], source, Null)

\* Cell.moveTo(targetRef, sourceRefs)
moveTo(W, source, targetRef, sourceRefs) ==
  moveToSource(moveToObservers(moveToTarget(W, source, targetRef),
                               source, targetRef, sourceRefs),
               source)

\* The cell a source cell is pasted to: [row + rowIndex, col + colIndex].
pasteTarget(sourceRef, from, to) ==
  <<to[1] + (sourceRef[1] - from[1]), to[2] + (sourceRef[2] - from[2])>>

\* sourceRefs.forEach of the paste handler: each cell of the clipboard range
\* (sources, from its top-left cell on) that exists is copied or moved to its
\* place relative to the pasted cell.
RECURSIVE pasteCells(_, _, _, _, _)
pasteCells(W, sources, i, to, action) ==
  IF i > Len(sources) \/ W.oob THEN W
  ELSE IF ~W.cells[sources[i]].exists
  THEN pasteCells(W, sources, i + 1, to, action)
  ELSE IF pasteTarget(sources[i], sources[1], to) \notin Refs
  THEN [W EXCEPT !.oob = TRUE]
  ELSE pasteCells(
         IF action = "copy"
         THEN copyTo(W, sources[i], pasteTarget(sources[i], sources[1], to))
         ELSE moveTo(W, sources[i], pasteTarget(sources[i], sources[1], to),
                     Range(sources)),
         sources, i + 1, to, action)

-----------------------------------------------------------------------------
(* References as texts.  A text is a sequence of character codes; the       *)
(* sheet above keeps a reference as its coordinates <<row, col>>.           *)

MaxColIndex == 710
MaxRowIndex == 12

ALPHABET_LENGTH == 26
CharCodeA == 65
CharCode0 == 48

RECURSIVE Power(_, _)
Power(b, e) == IF e = 0 THEN 1 ELSE b * Power(b, e - 1)

\* util.js: _colIndexFromSingleLetter
colIndexFromSingleLetter(colSingleRef) == colSingleRef - CharCodeA + 1

\* util.js: colIndexFromLabel, the reduce from the letter at position i
\* (counted from 1) on.
RECURSIVE colIndexFromLabelReduce(_, _, _)
colIndexFromLabelReduce(colRef, i, acc) ==
  IF i > Len(colRef) THEN acc
  ELSE colIndexFromLabelReduce(
         colRef, i + 1,
         acc + colIndexFromSingleLetter(colRef[i])
                 * Power(ALPHABET_LENGTH, Len(colRef) - i))

colIndexFromLabel(colRef) == colIndexFromLabelReduce(colRef, 1, 0)

\* util.js: _colSingleLetter
colSingleLetter(colIndex) == colIndex - 1 + CharCodeA

\* util.js: colAsLabel, its while loop.
RECURSIVE colAsLabelWhile(_, _)

\* A loop that divides as a positional base 26 does, A standing for the
\* digit zero.
colAsLabelWhilePositional(colIndex, colRef) ==
  IF colIndex >= 0
  THEN colAsLabelWhile(IF colIndex \div ALPHABET_LENGTH = 0 THEN -1
                       ELSE colIndex \div ALPHABET_LENGTH,
                       <<colSingleLetter((colIndex % ALPHABET_LENGTH) + 1)>> \o colRef)
  ELSE colRef

colAsLabelWhile(colIndex, colRef) ==
  IF colIndex >= 0
  THEN colAsLabelWhile((colIndex \div ALPHABET_LENGTH) - 1,
                       <<colSingleLetter((colIndex % ALPHABET_LENGTH) + 1)>> \o colRef)
  ELSE colRef

\* util.js: colAsLabel of a number.
colAsLabel(colIndex) == colAsLabelWhile(colIndex - 1, <<>>)

\* String(row): the decimal digits of a number.
RECURSIVE StringOfNumber(_)
StringOfNumber(n) ==
  IF n < 10 THEN <<CharCode0 + n>>
  ELSE StringOfNumber(n \div 10) \o <<CharCode0 + (n % 10)>>

\* Number(text) of a text of decimal digits.
RECURSIVE NumberOfDigits(_)
NumberOfDigits(text) ==
  IF text = <<>> THEN 0
  ELSE 10 * NumberOfDigits(SubSeq(text, 1, Len(text) - 1))
         + (text[Len(text)] - CharCode0)

\* util.js: asRef of the array [row, col]
asRef(coords) == colAsLabel(coords[2]) \o StringOfNumber(coords[1])

IsLetter(c) == c \in CharCodeA..(CharCodeA + ALPHABET_LENGTH - 1)
IsDigit(c) == c \in CharCode0..(CharCode0 + 9)

\* The letters ref starts with: match[1] of /^([A-Z]+)(\d+)$/.
LettersOf(ref) ==
  SubSeq(ref, 1, Cardinality({i \in DOMAIN ref : \A j \in 1..i : IsLetter(ref[j])}))

\* util.js: _rowColFromRef, as <<row, col>>; <<0, 0>> stands for the
\* TypeError of a text the expression does not match.
rowColFromRef(ref) ==
  IF /\ LettersOf(ref) # <<>>
     /\ Len(LettersOf(ref)) < Len(ref)
     /\ \A i \in (Len(LettersOf(ref)) + 1)..Len(ref) : IsDigit(ref[i])
  THEN <<NumberOfDigits(SubSeq(ref, Len(LettersOf(ref)) + 1, Len(ref))),
         colIndexFromLabel(LettersOf(ref))>>
  ELSE <<0, 0>>

\* util.js: asCoords of a text, its row and col.
asCoords(ref) == rowColFromRef(ref)

\* A column index and a row with what the conversions made of them.
Conversion(stage, n, row, label, index, ref, coords) ==
  [stage |-> stage, n |-> n, row |-> row, label |-> label, index |-> index,
   ref |-> ref, coords |-> coords]

NoConversion == Conversion("none", 0, 0, <<>>, 0, <<>>, <<0, 0>>)

\* The corners of the ranges expanded as texts (see ExpandSpec).
MaxRangeRow == 3
MaxRangeCol == 4

CharCodeColon == 58

\* A sequence that counts from 1.
sequenceFromOne(number) == [i \in 1..number |-> i]

\* util.js: sequence(number): 0, 1, ... number - 1
sequence(number) == [i \in 1..number |-> i - 1]

\* range.match(RANGE_REGEXP): the texts on the two sides of the colon.
RangeMatch(range) ==
  LET colon == CHOOSE i \in DOMAIN range : range[i] = CharCodeColon
  IN <<SubSeq(range, 1, colon - 1), SubSeq(range, colon + 1, Len(range))>>

\* The body of util.js: expandRange on asCoords of the two ends.  Each
\* sequenceMap(number, fn) is the sequence of fn over sequence(number).
expandRangeCoords(topLeftCoords, bottomRightCoords) ==
  IF bottomRightCoords[1] < topLeftCoords[1] \/ bottomRightCoords[2] < topLeftCoords[2]
  THEN <<>>
  ELSE [i \in 1..(bottomRightCoords[1] - topLeftCoords[1] + 1) |->
         [j \in 1..(bottomRightCoords[2] - topLeftCoords[2] + 1) |->
            asRef(<<topLeftCoords[1]
                      + sequence(bottomRightCoords[1] - topLeftCoords[1] + 1)[i],
                    topLeftCoords[2]
                      + sequence(bottomRightCoords[2] - topLeftCoords[2] + 1)[j]>>)]]

\* util.js: expandRange(range) of a range text: the rows of the rectangle,
\* each a sequence of reference texts.
expandRangeText(range) ==
  expandRangeCoords(asCoords(RangeMatch(range)[1]), asCoords(RangeMatch(range)[2]))

\* A range on its way through expandRange.
Expansion(stage, from, to, range, rows) ==
  [stage |-> stage, from |-> from, to |-> to, range |-> range, rows |-> rows]

-----------------------------------------------------------------------------
(* The state machine: the sheet held by the Spreadsheet component, edited   *)
(* through its handlers.                                                    *)

VARIABLES
  cells,  \* sheet.cells of the current sheet
  log,    \* what the last operation did (see Event)
  op,     \* the last operation: [kind, ref, value, from, to]
  steps,  \* the number of operations so far
  previous, \* the cells of the sheet the last operation cloned, as they
            \* are after the operation
  marks,  \* what held at each event of log (see Mark)
  conv    \* a column index and a row on their way through the conversions
          \* of util.js (see RoundTripSpec); no part of the sheet

vars == <<cells, log, op, steps, previous, marks, conv>>

A1 == <<1, 1>>
B1 == <<1, 2>>
A2 == <<2, 1>>
B2 == <<2, 2>>

\* The formulas of the model.
RefPlusOne(r) == Formula(<<Ref(r), Plus, Con(1)>>)
RefTimesZero(r) == Formula(<<Ref(r), Times, Con(0)>>)
RefPlusRef(r, q) == Formula(<<Ref(r), Plus, Ref(q)>>)
SumOf(a, b) == Formula(<<Sum(a, b)>>)
RefOverZero(r) == Formula(<<Ref(r), Over, Con(0)>>)

Formulas ==
  {RefPlusOne(r) : r \in Refs}
  \cup {RefTimesZero(r) : r \in Refs}
  \cup {RefPlusRef(r, q) : r, q \in Refs}
  \cup {SumOf(a, b) : a, b \in Refs}
  \cup {RefOverZero(r) : r \in Refs}

\* util.js: normalizeValue of the text of a cell's input: the empty string,
\* a number, or the trimmed text (a formula or a plain text).
normalizeValue ==
  {Blank, Num(1), Num(2), Num(10), Text} \cup Formulas

\* The initial data the sheet is constructed from: each a sequence of
\* <<ref, value>> in the order of the object's keys.
InitialCellData ==
  { <<>>,
    << <<A1, Num(1)>>, <<A2, RefPlusOne(A1)>>, <<B1, RefPlusOne(A2)>> >>,
    << <<A1, Num(1)>>, <<B1, RefPlusOne(A1)>>, <<A2, RefTimesZero(A1)>>,
       <<B2, RefPlusRef(B1, A2)>> >>,
    << <<A1, Num(1)>>, <<B1, RefPlusOne(A1)>>, <<A2, RefPlusOne(A1)>>,
       <<B2, RefPlusRef(B1, A2)>> >>,
    << <<A1, Num(2)>>, <<B2, SumOf(A1, A2)>>, <<B1, RefPlusOne(B2)>> >> }

Op(kind, ref, value, from, to) ==
  [kind |-> kind, ref |-> ref, value |-> value, from |-> from, to |-> to]

Init ==
  /\ \E data \in InitialCellData : cells = Sheet(data)
  /\ log = <<>>
  /\ marks = <<>>
  /\ op = Op("init", BadRef, Undef, BadRef, BadRef)
  /\ steps = 0
  /\ previous = [r \in Refs |-> NoCell]
  /\ conv = NoConversion

\* setSheet((previousSheet) => ...): the sheet an operation returns becomes
\* the current sheet; previousSheet stays with whoever holds it.
setSheet(W) ==
  /\ ~W.oob
  /\ cells' = W.cells
  /\ log' = W.log
  /\ marks' = W.marks
  /\ previous' = previousSheet(cells, W.cells, reusedCells(cells))

\* handleCellInputBlur(ref): the normalized input is written to a clone of
\* the sheet, unless it is the cell's content already.
Write(ref, newValue) ==
  /\ steps < MaxSteps
  /\ ~(~cells[ref].exists /\ newValue = Blank)
  /\ ~(cells[ref].exists /\ newValue = cells[ref].value)
  /\ setSheet(updateOrCreateCell(World(clone(cells)), ref, newValue))
  /\ op' = Op("write", ref, newValue, BadRef, BadRef)
  /\ steps' = steps + 1
  /\ UNCHANGED conv

\* handleCellInputKeyDown(ref), key "v": the clipboard range from:to, copied
\* or cut, is pasted at ref on a clone of the sheet.
Paste(action, from, to, ref) ==
  /\ steps < MaxSteps
  /\ from[1] <= to[1] /\ from[2] <= to[2]
  /\ setSheet(pasteCells(World(clone(cells)), expandRange(from, to), 1, ref,
                         action))
  /\ op' = Op(action, ref, Undef, from, to)
  /\ steps' = steps + 1
  /\ UNCHANGED conv

Next ==
  \/ \E ref \in Refs, newValue \in normalizeValue : Write(ref, newValue)
  \/ \E from, to, ref \in Refs : Paste("copy", from, to, ref)
  \/ \E from, to, ref \in Refs : Paste("cut", from, to, ref)

Spec == Init /\ [][Next]_vars

-----------------------------------------------------------------------------
(* The conversions of util.js applied one after the other to a column       *)
(* index n and a row: colAsLabel, colIndexFromLabel, asRef, asCoords.       *)

RoundTripInit ==
  /\ \E n \in 1..MaxColIndex, row \in 1..MaxRowIndex :
       conv = Conversion("input", n, row, <<>>, 0, <<>>, <<0, 0>>)
  /\ cells = [r \in Refs |-> NoCell]
  /\ log = <<>>
  /\ marks = <<>>
  /\ op = Op("init", BadRef, Undef, BadRef, BadRef)
  /\ steps = 0
  /\ previous = [r \in Refs |-> NoCell]

ApplyColAsLabel ==
  /\ conv.stage = "input"
  /\ conv' = [conv EXCEPT !.stage = "label", !.label = colAsLabel(conv.n)]
  /\ UNCHANGED <<cells, log, op, steps, previous, marks>>

ApplyColIndexFromLabel ==
  /\ conv.stage = "label"
  /\ conv' = [conv EXCEPT !.stage = "index",
                          !.index = colIndexFromLabel(conv.label)]
  /\ UNCHANGED <<cells, log, op, steps, previous, marks>>

ApplyAsRef ==
  /\ conv.stage = "index"
  /\ conv' = [conv EXCEPT !.stage = "ref", !.ref = asRef(<<conv.row, conv.n>>)]
  /\ UNCHANGED <<cells, log, op, steps, previous, marks>>

ApplyAsCoords ==
  /\ conv.stage = "ref"
  /\ conv' = [conv EXCEPT !.stage = "coords", !.coords = asCoords(conv.ref)]
  /\ UNCHANGED <<cells, log, op, steps, previous, marks>>

RoundTripNext ==
  \/ ApplyColAsLabel
  \/ ApplyColIndexFromLabel
  \/ ApplyAsRef
  \/ ApplyAsCoords

RoundTripSpec == RoundTripInit /\ [][RoundTripNext]_vars

-----------------------------------------------------------------------------
(* expandRange of util.js applied to the text of a range from:to.           *)

RangeCorners == (1..MaxRangeRow) \X (1..MaxRangeCol)

ExpandInit ==
  /\ \E from, to \in RangeCorners :
       conv = Expansion("range", from, to,
                        asRef(from) \o <<CharCodeColon>> \o asRef(to), <<>>)
  /\ cells = [r \in Refs |-> NoCell]
  /\ log = <<>>
  /\ marks = <<>>
  /\ op = Op("init", BadRef, Undef, BadRef, BadRef)
  /\ steps = 0
  /\ previous = [r \in Refs |-> NoCell]

ApplyExpandRange ==
  /\ conv.stage = "range"
  /\ conv' = [conv EXCEPT !.stage = "expanded",
                          !.rows = expandRangeText(conv.range)]
  /\ UNCHANGED <<cells, log, op, steps, previous, marks>>

ExpandNext == ApplyExpandRange

ExpandSpec == ExpandInit /\ [][ExpandNext]_vars

-----------------------------------------------------------------------------
(* Notions the properties are stated with.                                  *)

Subjects(r) == Range(cells[r].subjects)
Observers(r) == Range(cells[r].observers)

\* The references of a content, ranges expanded.
ContentRefs(value) ==
  IF isFormula(value) THEN Range(findRefsInFormula(value.f)) ELSE {}

\* The cells reached from S by following subjects, S included.
RECURSIVE ReachBySubjects(_, _)
ReachBySubjects(c, S) ==
  IF S \cup UNION {Range(c[r].subjects) : r \in S} = S THEN S
  ELSE ReachBySubjects(c, S \cup UNION {Range(c[r].subjects) : r \in S})

\* The cells reached from S by following the references of the contents.
RECURSIVE ReachByContent(_, _)
ReachByContent(c, S) ==
  IF S \cup UNION {ContentRefs(c[r].value) : r \in S} = S THEN S
  ELSE ReachByContent(c, S \cup UNION {ContentRefs(c[r].value) : r \in S})

\* A valid formula cell holds the value of its formula over the current
\* values of its subjects.
UpToDate(r) ==
  (cells[r].exists /\ isFormula(cells[r].value) /\ ~cells[r].invalid)
    => cells[r].evaluatedValue = EvalFormula(cells, r).evaluatedValue

HasEvent(e, r) == \E i \in DOMAIN log : log[i].e = e /\ log[i].r = r
EvalCount(r) == Cardinality({i \in DOMAIN log : log[i].e = "eval" /\ log[i].r = r})
EvalIndex(r) == CHOOSE i \in DOMAIN log : log[i].e = "eval" /\ log[i].r = r

\* The last operation moved the single cell op.from to op.ref.
SingleMove == op.kind = "cut" /\ op.from = op.to

-----------------------------------------------------------------------------
(* C1: after any sequence of operations, for all cells X and Y, Y is in     *)
(* X.subjects if and only if X is in Y.observers.                           *)
C1_EdgeSymmetry ==
  \A x, y \in Refs : (y \in Subjects(x)) <=> (x \in Observers(y))

C1_Witness ==
  /\ op.kind = "write"
  /\ HasEvent("circular", op.ref)
  /\ \E x \in Refs : Subjects(x) # {}
  /\ \E y \in Refs : cells[y].exists /\ ~isFormula(cells[y].value)
                       /\ Observers(y) # {}

(* C2: when a write that is not rejected as circular has completed, every   *)
(* valid formula cell holds the value of its formula over the current       *)
(* values of its subjects.                                                  *)
C2_NoMissedUpdates ==
  (op.kind = "write" /\ ~HasEvent("circular", op.ref))
    => \A r \in Refs : UpToDate(r)

(* C3: in a diamond A -> B, A -> C, B -> D, C -> D, a change of A that      *)
(* changes B or C makes D evaluate exactly once, after B and C, and         *)
(* leaves D with the value of its formula over the new B and C.             *)
Diamond(a, b, c, d) ==
  /\ ~isFormula(cells[a].value)
  /\ b # c
  /\ Subjects(b) = {a} /\ Subjects(c) = {a} /\ Subjects(d) = {b, c}
  /\ Observers(a) = {b, c} /\ Observers(b) = {d} /\ Observers(c) = {d}
  /\ ~cells[b].invalid /\ ~cells[c].invalid /\ ~cells[d].invalid

C3_DiamondOnce ==
  \A a, b, c, d \in Refs :
    ( /\ op.kind = "write" /\ op.ref = a
      /\ Diamond(a, b, c, d)
      /\ \E i \in DOMAIN log : log[i] = Event("eval", a, TRUE)
      /\ \E i \in DOMAIN log : log[i] \in {Event("eval", b, TRUE), Event("eval", c, TRUE)} )
    => /\ EvalCount(d) = 1
       /\ EvalCount(b) = 1 /\ EvalCount(c) = 1
       /\ EvalIndex(b) < EvalIndex(d) /\ EvalIndex(c) < EvalIndex(d)
       /\ UpToDate(d)

C3_BothBranchesChange ==
  \E a, b, c, d \in Refs :
    /\ op.kind = "write" /\ op.ref = a
    /\ Diamond(a, b, c, d)
    /\ \E i \in DOMAIN log : log[i] = Event("eval", b, TRUE)
    /\ \E i \in DOMAIN log : log[i] = Event("eval", c, TRUE)
    /\ HasEvent("wait", d)
    /\ EvalCount(d) = 1

(* C4: during one write pass started with all evaluated flags false, every  *)
(* cell's value is computed at most once; _evaluateValue leaves a cell      *)
(* whose evaluated flag is true, and the rest of the sheet, unchanged.      *)
C4_NoRedundantEvaluation ==
  /\ op.kind = "write" => \A r \in Refs : EvalCount(r) <= 1
  /\ \A r \in Refs :
       cells[r].evaluated => evaluateValue(World(cells), r, Refs).cells = cells

C4_Witness ==
  /\ op.kind = "write"
  /\ \E r \in Refs : HasEvent("already", r) /\ EvalCount(r) = 1

(* C5: a write to cell A of a formula whose references reach A through the  *)
(* subjects of the cells leaves A invalid with "Circular dependency", its   *)
(* evaluated value null and its subjects as they were before the write.     *)
WriteStep(a) ==
  /\ op'.kind = "write" /\ op'.ref = a
  /\ steps' = steps + 1

C5_ByContent ==
  [][\A a \in Refs :
       (WriteStep(a) /\ a \in ReachByContent(cells, ContentRefs(op'.value)))
         => /\ cells'[a].invalid
            /\ cells'[a].errorMessage = CircularMsg
            /\ cells'[a].evaluatedValue = Null
            /\ cells'[a].subjects = cells[a].subjects]_vars

(* C6: the graph of the subjects has no cycle.                              *)
C6_Acyclic ==
  \A r \in Refs : r \notin ReachBySubjects(cells, Subjects(r))

C6_Witness ==
  /\ op.kind = "write"
  /\ HasEvent("circular", op.ref)
  /\ \E r \in Refs : r # op.ref /\ op.ref \in Subjects(r)

(* C7: a write to cell A is marked "Circular dependency" only if A is       *)
(* reached from the new formula's references by following the references    *)
(* of the contents of the cells.                                            *)
C7_NoFalseCycle ==
  [][\A a \in Refs :
       (WriteStep(a) /\ cells'[a].errorMessage = CircularMsg)
         => a \in ReachByContent(cells, ContentRefs(op'.value))]_vars

(* C8: no valid formula cell references an invalid cell.                    *)
C8_InvalidPropagates ==
  \A x \in Refs :
    (cells[x].exists /\ isFormula(cells[x].value)
       /\ \E y \in ContentRefs(cells[x].value) : cells[y].invalid)
      => cells[x].invalid

(* C9: after a move of one cell on a freshly cloned sheet, every valid      *)
(* formula cell holds the value of its formula over the current values of   *)
(* its subjects (stated for the moves none of whose writes is rejected as   *)
(* circular).                                                               *)
C9_MoveUpToDate ==
  (SingleMove /\ \A r \in Refs : ~HasEvent("circular", r))
    => \A r \in Refs : UpToDate(r)

(* C10: a move of the cell at source to target rewrites, in every observer  *)
(* of the source, each stand-alone reference to source into target, and     *)
(* leaves the source empty.                                                 *)
MoveStep(source, target) ==
  /\ op'.kind = "cut" /\ op'.from = source /\ op'.to = source
  /\ op'.ref = target
  /\ steps' = steps + 1
  /\ cells[source].exists

RefsRewritten(old, new, source, target) ==
  /\ isFormula(old) /\ isFormula(new)
  /\ Len(new.f) = Len(old.f)
  /\ \A i \in DOMAIN old.f :
       IF old.f[i].k = "ref"
       THEN new.f[i] = Ref(IF old.f[i].a = source THEN target ELSE old.f[i].a)
       ELSE new.f[i].k = old.f[i].k

C10_MoveRewritesObservers ==
  [][\A source, target \in Refs :
       MoveStep(source, target)
         => /\ cells'[source].value = Null
            /\ \A o \in Range(cells[source].observers) :
                 RefsRewritten(cells[o].value, cells'[o].value, source, target)]_vars

C10_ExceptTarget ==
  [][\A source, target \in Refs :
       MoveStep(source, target)
         => /\ cells'[source].value = Null
            /\ \A o \in Range(cells[source].observers) \ {target} :
                 RefsRewritten(cells[o].value, cells'[o].value, source, target)]_vars

C10_Witness ==
  /\ op = Op("cut", B2, Undef, A1, A1)
  /\ cells[A1].value = Null
  /\ cells[B1].value = RefPlusOne(B2)
  /\ cells[B1].evaluatedValue = Num(2)
  /\ cells[B2].value = Num(1)

(* C11: in an observer's formula a range is rewritten, both its ends        *)
(* shifted by target - source, exactly when every cell of the range is      *)
(* among the cells moved in the same operation; otherwise the range is      *)
(* left as it is.                                                           *)
MoveOf(source, target, sourceRefs) ==
  moveTo(World(clone(cells)), source, target, sourceRefs)

Shifted(r, source, target) ==
  <<r[1] + (target[1] - source[1]), r[2] + (target[2] - source[2])>>

RangesRewritten(old, new, source, target, sourceRefs) ==
  /\ isFormula(old) /\ isFormula(new)
  /\ Len(new.f) = Len(old.f)
  /\ \A i \in DOMAIN old.f :
       IsRangeToken(old.f[i]) =>
         new.f[i] = IF Range(expandRange(old.f[i].a, old.f[i].b)) \subseteq sourceRefs
                    THEN Sum(Shifted(old.f[i].a, source, target),
                             Shifted(old.f[i].b, source, target))
                    ELSE old.f[i]

\* The moves the paste handler makes of the clipboard range from:to pasted
\* at ref: <<source, target, sourceRefs>>.
PasteMoves ==
  {<<source, pasteTarget(source, from, ref), Range(expandRange(from, to))>> :
     <<from, to, ref, source>> \in
       {m \in Refs \X Refs \X Refs \X Refs :
          /\ m[4] \in Range(expandRange(m[1], m[2]))
          /\ pasteTarget(m[4], m[1], m[3]) \in Refs}}

CopyStep(source, target) ==
  /\ op'.kind = "copy" /\ op'.from = source /\ op'.to = source
  /\ op'.ref = target
  /\ steps' = steps + 1
  /\ cells[source].exists

ShiftedOrBad(r, source, target) ==
  IF r = BadRef
       \/ Shifted(r, source, target)[1] < 1 \/ Shifted(r, source, target)[2] < 1
  THEN BadRef
  ELSE Shifted(r, source, target)

Translated(value, source, target) ==
  IF ~isFormula(value) THEN value
  ELSE Formula([i \in DOMAIN value.f |->
                  IF value.f[i].k = "ref"
                  THEN Ref(ShiftedOrBad(value.f[i].a, source, target))
                  ELSE IF value.f[i].k = "sum"
                  THEN Sum(ShiftedOrBad(value.f[i].a, source, target),
                           ShiftedOrBad(value.f[i].b, source, target))
                  ELSE value.f[i]])

C12_CopyTranslates ==
  [][\A source, target \in Refs :
       CopyStep(source, target)
         => cells'[target].value = Translated(cells[source].value, source, target)]_vars

\* B2 = "=B1+A1" copied to A2: B1 becomes A1, and the A1 of the source,
\* not the one just written, becomes "[invalid ref]".
C12_Witness ==
  /\ op = Op("copy", A2, Undef, B2, B2)
  /\ cells[B2].value = RefPlusRef(B1, A1)
  /\ cells[A2].value = Formula(<<Ref(A1), Plus, Ref(BadRef)>>)

Chain(a, b, c) ==
  /\ cells[b].value = RefPlusOne(a) /\ Subjects(b) = {a}
  /\ cells[c].value = RefPlusOne(b) /\ Subjects(c) = {b}

\* Before the last operation the chain held the values v, v + 1, v + 2.
ChainSettled(a, b, c) ==
  /\ previous[b].value = RefPlusOne(a) /\ previous[c].value = RefPlusOne(b)
  /\ ~previous[a].invalid /\ ~previous[b].invalid /\ ~previous[c].invalid
  /\ previous[a].evaluatedValue.t = "num"
  /\ previous[b].evaluatedValue = Num(previous[a].evaluatedValue.n + 1)
  /\ previous[c].evaluatedValue = Num(previous[a].evaluatedValue.n + 2)

C14_ChainEndToEnd ==
  /\ (steps = 0 /\ cells[A1].value = Num(1) /\ Chain(A1, A2, B1))
       => /\ cells[A1].evaluatedValue = Num(1)
          /\ cells[A2].evaluatedValue = Num(2)
          /\ cells[B1].evaluatedValue = Num(3)
  /\ \A a, b, c \in Refs :
       ( /\ op.kind = "write" /\ op.ref = a /\ op.value.t = "num"
         /\ Chain(a, b, c) /\ ChainSettled(a, b, c)
         /\ previous[a].evaluatedValue # op.value )
       => /\ cells[a].evaluatedValue = op.value
          /\ cells[b].evaluatedValue = Num(op.value.n + 1)
          /\ cells[c].evaluatedValue = Num(op.value.n + 2)
          /\ ~cells[b].invalid /\ ~cells[c].invalid
          /\ EvalCount(a) = 1 /\ EvalCount(b) = 1 /\ EvalCount(c) = 1

C14_Witness ==
  /\ op = Op("write", A1, Num(10), BadRef, BadRef)
  /\ steps = 1
  /\ Chain(A1, A2, B1)
  /\ previous[A1].evaluatedValue = Num(1)
  /\ previous[A2].evaluatedValue = Num(2)
  /\ previous[B1].evaluatedValue = Num(3)
  /\ cells[A2].evaluatedValue = Num(11)
  /\ cells[B1].evaluatedValue = Num(12)
  /\ log = <<Event("pass", A1, TRUE), Event("eval", A1, TRUE),
             Event("eval", A2, TRUE), Event("eval", B1, TRUE)>>

(* C15: setValue with the content the cell has already changes nothing, in  *)
(* the cell or in any other cell, and evaluates no cell.                    *)
C15_SetSameValueNoOp ==
  [][steps' = steps + 1 =>
       /\ \A r \in Refs :
            cells[r].exists
              => setValue(World(cells), r, cells[r].value) = World(cells)
       /\ \A source, target \in Refs :
            ( /\ CopyStep(source, target)
              /\ cells[target].exists
              /\ cells[target].value = Translated(cells[source].value, source, target) )
            => cells' = clone(cells) /\ log' = <<>>]_vars

\* A copy of a formula cell onto another cell that holds the translated
\* formula already.
C15_Witness ==
  /\ op.kind = "copy" /\ op.from = op.to /\ op.from # op.ref
  /\ previous[op.from].exists /\ previous[op.ref].exists
  /\ isFormula(previous[op.from].value)
  /\ previous[op.ref].value = Translated(previous[op.from].value, op.from, op.ref)
  /\ Subjects(op.ref) # {}
  /\ log = <<>>

(* C16: every write, copy and move finishes: the cycle check and the        *)
(* descendantObservers walk visit each cell at most once, and between two   *)
(* starts of an evaluation every cell is computed at most once, so the      *)
(* evaluate/notify recursion makes a bounded number of calls.               *)
NoDuplicates(s) == \A i, j \in DOMAIN s : s[i] = s[j] => i = j

\* The calls of _evaluateValue and the visits of _notifyObservers that one
\* evaluation can make at most: one computation per cell, and one visit
\* per observer edge of a computed cell.
MaxCalls == Cardinality(Refs) * Cardinality(Refs)

\* The events of the log from i up to the next start of an evaluation.
SamePass(i, j) ==
  /\ i < j
  /\ \A k \in (i + 1)..j : log[k].e \notin {"pass", "circular"}

C16_Terminates ==
  /\ \A r \in Refs :
       cells[r].exists
         => /\ NoDuplicates(descendantObserversFrom(cells, r, <<>>).visited)
            /\ descendantObservers(cells, r) \subseteq {x \in Refs : cells[x].exists}
  /\ steps < MaxSteps => \A r \in Refs : \A v \in Formulas :
       NoDuplicates(hasCircularDependency(findOrCreateCell(cells, r), r,
                                          newSubjectsOf(v), <<>>).visited)
  /\ \A i, j \in DOMAIN log :
       (SamePass(i, j) /\ log[i].e = "eval" /\ log[j].e = "eval")
         => log[i].r # log[j].r
  /\ \A i \in DOMAIN log :
       log[i].e = "pass"
         => Cardinality({j \in DOMAIN log : SamePass(i, j)}) <= MaxCalls

\* A diamond: the walk from a meets d a second time, and the evaluation
\* started at a visited d twice.
C16_Witness ==
  \E a, b, c, d \in Refs :
    /\ op.kind = "write" /\ op.ref = a
    /\ Diamond(a, b, c, d)
    /\ Len(descendantObserversFrom(cells, a, <<>>).visited) = 3
    /\ HasEvent("wait", d) \/ HasEvent("already", d)
    /\ EvalCount(d) = 1

(* C17: a formula whose expression fails to evaluate (a malformed           *)
(* expression, an undefined operation, a division by zero) leaves its cell  *)
(* invalid with "Invalid formula" and a null evaluated value.               *)
DividesByZero(r) ==
  /\ Len(cells[r].value.f) = 3
  /\ cells[r].value.f[2] = Over
  /\ cells[r].value.f[3] = Con(0)

ExpressionFails(r) ==
  \/ EvalExpression(cells[r].value.f, cells[r].subjects, cells) = Fail
  \/ DividesByZero(r)

C17_FailureIsInvalidFormula ==
  \A r \in Refs :
    ( /\ op.kind = "write" /\ op.ref = r
      /\ isFormula(cells[r].value)
      /\ HasEvent("eval", r)
      /\ \A x \in Subjects(r) : ~cells[x].invalid
      /\ ExpressionFails(r) )
    => /\ cells[r].invalid
       /\ cells[r].errorMessage = InvalidFormulaMsg
       /\ cells[r].evaluatedValue = Null

(* C18: in a copy, a reference whose translation would have a row or a      *)
(* column below 1 is the only one invalidated: the placeholder stands in    *)
(* its place, every other reference is translated by target - source, and   *)
(* the resulting content is written to the target.  The placeholder in the  *)
(* written content is "[INVALID REF]", the whole formula being upper-cased. *)
Below(r, source, target) ==
  /\ r \in Refs
  /\ Shifted(r, source, target)[1] < 1 \/ Shifted(r, source, target)[2] < 1

\* The end r of a token of the source, as the copy writes it, marker
\* standing for a reference invalidated.
CopiedEnd(r, source, target, marker) ==
  IF Below(r, source, target) THEN marker
  ELSE IF r \in Refs THEN Shifted(r, source, target)
  ELSE r

CopiedWith(value, source, target, marker) ==
  Formula([i \in DOMAIN value.f |->
             IF value.f[i].k \in {"ref", "sum"}
             THEN [value.f[i] EXCEPT !.a = CopiedEnd(@, source, target, marker),
                                     !.b = CopiedEnd(@, source, target, marker)]
             ELSE value.f[i]])

CopyInvalidates(marker) ==
  \A source, target \in Refs :
    ( /\ CopyStep(source, target)
      /\ isFormula(cells[source].value)
      /\ \E r \in Range(findRefsInRawFormula(cells[source].value.f)) :
           Below(r, source, target) )
    => /\ cells'[target].exists
       /\ cells'[target].value = CopiedWith(cells[source].value, source, target, marker)

\* The claim as stated: the placeholder written is "[invalid ref]".
C18_InvalidRefLowerCase == [][CopyInvalidates(InvalidRefMarker)]_vars

\* The claim with the placeholder as the code writes it.
C18_InvalidRefUpperCase == [][CopyInvalidates(BadRef)]_vars

\* A formula with two references copied so that one of them only falls
\* off the sheet.
C18_Witness ==
  /\ op.kind = "copy" /\ op.from = op.to
  /\ previous[op.from].exists /\ isFormula(previous[op.from].value)
  /\ \E r, q \in Range(findRefsInRawFormula(previous[op.from].value.f)) :
       /\ Below(r, op.from, op.ref)
       /\ ~Below(q, op.from, op.ref)
  /\ cells[op.ref].value = CopiedWith(previous[op.from].value, op.from, op.ref, BadRef)
  /\ cells[op.ref].invalid
  /\ cells[op.ref].errorMessage = InvalidFormulaMsg

(* C19: when a formula cell is evaluated, a subject whose content is empty  *)
(* contributes 0, a subject whose content is a text that is no number and   *)
(* no formula contributes 0, any other subject contributes its evaluated    *)
(* value; if a subject is invalid the cell becomes invalid with "Invalid    *)
(* ref [subject]" and a null evaluated value, whatever its expression.      *)
Contribution(x) ==
  IF cells[x].value.t \in {"undef", "null", "blank"} THEN Num(0)
  ELSE IF cells[x].value.t = "text" THEN Num(0)
  ELSE ExtNumber(cells[x].evaluatedValue)

\* The cell r was written a formula by the last operation and evaluated.
WrittenFormula(r) ==
  /\ op.kind = "write" /\ op.ref = r
  /\ isFormula(cells[r].value)
  /\ HasEvent("eval", r)

C19_SubjectContributions ==
  \A r \in Refs :
    WrittenFormula(r) =>
      IF \E x \in Subjects(r) : cells[x].invalid
      THEN /\ cells[r].invalid
           /\ cells[r].evaluatedValue = Null
           /\ \E x \in Subjects(r) :
                cells[x].invalid /\ cells[r].errorMessage = InvalidRefMsg(x)
      ELSE \A x, y \in Refs :
             /\ cells[r].value = RefPlusOne(x)
                  => cells[r].evaluatedValue = Arith("+", Contribution(x), Num(1))
             /\ cells[r].value = RefTimesZero(x)
                  => cells[r].evaluatedValue = Arith("*", Contribution(x), Num(0))
             /\ cells[r].value = RefOverZero(x)
                  => cells[r].evaluatedValue = Arith("/", Contribution(x), Num(0))
             /\ cells[r].value = RefPlusRef(x, y)
                  => cells[r].evaluatedValue = Arith("+", Contribution(x), Contribution(y))

\* "=x+y" written with x a text and y a formula holding a number; and
\* before it a subject of a written formula was invalid.
C19_Witness ==
  \E r, x, y \in Refs :
    /\ WrittenFormula(r)
    /\ cells[r].value = RefPlusRef(x, y)
    /\ cells[x].value = Text
    /\ isFormula(cells[y].value) /\ cells[y].evaluatedValue.t = "num"
    /\ cells[y].evaluatedValue.n > 0
    /\ ~cells[r].invalid
    /\ cells[r].evaluatedValue = cells[y].evaluatedValue

\* A formula written over an invalid subject.
C19_InvalidSubject ==
  \E r, x \in Refs :
    /\ WrittenFormula(r)
    /\ x \in Subjects(r) /\ cells[x].invalid
    /\ cells[r].errorMessage = InvalidRefMsg(x)

(* C20: column labels round-trip: for every n >= 1,                         *)
(* colIndexFromLabel(colAsLabel(n)) = n and asCoords(asRef([r, n])) is      *)
(* (r, n); 27 is "AA", 702 is "ZZ" and 703 is "AAA".                        *)
LabelText(letters) == [i \in DOMAIN letters |-> CharCodeA + letters[i] - 1]

C20_LabelRoundTrip ==
  /\ conv.stage \in {"index", "ref", "coords"} => conv.index = conv.n
  /\ conv.stage = "coords" => conv.coords = <<conv.row, conv.n>>
  /\ conv.stage \in {"label", "index", "ref", "coords"} =>
       /\ conv.n = 27 => conv.label = LabelText(<<1, 1>>)
       /\ conv.n = 702 => conv.label = LabelText(<<26, 26>>)
       /\ conv.n = 703 => conv.label = LabelText(<<1, 1, 1>>)
       /\ \A i \in DOMAIN conv.label : IsLetter(conv.label[i])

\* Column 703 and row 12 through all four conversions: "AAA12".
C20_Witness ==
  /\ conv.stage = "coords"
  /\ conv.n = 703 /\ conv.row = 12
  /\ conv.ref = LabelText(<<1, 1, 1>>) \o <<CharCode0 + 1, CharCode0 + 2>>
  /\ conv.coords = <<12, 703>>

(* C21: expandRange of a range with top-left (r1, c1) and bottom-right      *)
(* (r2, c2) gives the (r2 - r1 + 1) x (c2 - c1 + 1) references of the        *)
(* rectangle in row-major order, each once; when the bottom-right is above  *)
(* or left of the top-left it gives the empty sequence.                     *)
Inverted(from, to) == to[1] < from[1] \/ to[2] < from[2]

\* The references expandRange gave, one after the other, as coordinates.
Expanded == [i \in DOMAIN Concat(conv.rows) |-> asCoords(Concat(conv.rows)[i])]

C21_ExpandRange ==
  conv.stage = "expanded" =>
    IF Inverted(conv.from, conv.to) THEN conv.rows = <<>>
    ELSE /\ Len(conv.rows) = conv.to[1] - conv.from[1] + 1
         /\ \A i \in DOMAIN conv.rows :
              /\ Len(conv.rows[i]) = conv.to[2] - conv.from[2] + 1
              /\ \A j \in DOMAIN conv.rows[i] :
                   conv.rows[i][j] = asRef(<<conv.from[1] + i - 1, conv.from[2] + j - 1>>)
         /\ Range(Expanded) =
              {r \in RangeCorners : /\ conv.from[1] <= r[1] /\ r[1] <= conv.to[1]
                                    /\ conv.from[2] <= r[2] /\ r[2] <= conv.to[2]}
         /\ NoDuplicates(Expanded)
         /\ Expanded = expandRange(conv.from, conv.to)

\* A1:C2 gives A1, B1, C1, A2, B2, C2.
C21_Witness ==
  /\ conv.stage = "expanded"
  /\ conv.from = <<1, 1>> /\ conv.to = <<2, 3>>
  /\ Expanded = << <<1, 1>>, <<1, 2>>, <<1, 3>>, <<2, 1>>, <<2, 2>>, <<2, 3>> >>

\* B2:A1, a range with its corners inverted, gives nothing.
C21_InvertedIsEmpty ==
  /\ conv.stage = "expanded"
  /\ conv.from = <<2, 2>> /\ conv.to = <<1, 1>>
  /\ conv.rows = <<>>

(* C22: an observer is evaluated on a notification only when each of its    *)
(* subjects in the frontier is marked evaluated, and none of its subjects   *)
(* is evaluated later in the same pass.                                     *)

\* The start of the pass the event i belongs to.
PassOf(i) ==
  CHOOSE p \in 1..i : log[p].e = "pass" /\ \A k \in (p + 1)..i : log[k].e # "pass"

\* The cells marked evaluated when the event i happened.
MarkedAt(i) ==
  marks[PassOf(i)].b
    \cup {log[k].r : k \in {k \in (PassOf(i) + 1)..(i - 1) : log[k].e = "eval"}}

\* The event i is the evaluation of an observer on a notification (the
\* first evaluation of a pass is the one of the written cell).
Notified(i) == log[i].e = "eval" /\ i > PassOf(i) + 1

C22_ObserverAfterSubjects ==
  \A i \in DOMAIN log :
    Notified(i)
      => /\ (marks[i].a \cap marks[PassOf(i)].a) \subseteq MarkedAt(i)
         /\ \A j \in DOMAIN log :
              (SamePass(i, j) /\ log[j].e = "eval") => log[j].r \notin marks[i].a

\* A diamond whose bottom cell waited for its second subject.
C22_Witness ==
  \E i, w \in DOMAIN log :
    /\ Notified(i)
    /\ w < i /\ PassOf(w) = PassOf(i)
    /\ log[w] = Event("wait", log[i].r, TRUE)
    /\ Cardinality(marks[i].a \cap marks[PassOf(i)].a) = 2

(* C23: whenever a write begins its evaluation pass (the write of the       *)
(* input handler, the write of a copy, each write of a move, the moves of   *)
(* one paste included), the written cell and every cell of its frontier     *)
(* have evaluated = false.                                                  *)
C23_PassStartsClean ==
  \A i \in DOMAIN log :
    log[i].e = "pass" => marks[i].a \cap marks[i].b = {}

\* The same of the writes of the input handler and of the copies only.
C23_WriteAndCopyStartClean ==
  op.kind \in {"write", "copy"} => C23_PassStartsClean

(* C24: descendantObservers of a cell is the cell itself and every cell     *)
(* reached from it through observers, in a diamond too.                     *)

\* The cells reached from S by following observers, S included.
RECURSIVE ReachByObservers(_)
ReachByObservers(S) ==
  IF UNION {Observers(r) : r \in S} \subseteq S THEN S
  ELSE ReachByObservers(S \cup UNION {Observers(r) : r \in S})

C24_DescendantsAreClosure ==
  \A r \in Refs :
    cells[r].exists => descendantObservers(cells, r) = ReachByObservers({r})

\* A diamond: the bottom cell is reached along both sides.
C24_Witness ==
  \E a, b, c, d \in Refs :
    /\ Diamond(a, b, c, d)
    /\ descendantObservers(cells, a) = {a, b, c, d}
    /\ descendantObservers(cells, b) = {b, d}
    /\ descendantObservers(cells, d) = {d}

(* C25: after every operation, every cell whose content is a literal (no    *)
(* formula) has its evaluated value equal to its content.                   *)
C25_LiteralIsItsValue ==
  \A r \in Refs :
    (cells[r].exists /\ ~isFormula(cells[r].value))
      => cells[r].evaluatedValue = cells[r].value

(* C26: the subjects of every valid cell are the references of its content, *)
(* a range counting for all its cells; a cell holding a literal or nothing  *)
(* has no subjects.                                                         *)
C26_SubjectsAreContentRefs ==
  \A r \in Refs :
    (cells[r].exists /\ ~cells[r].invalid)
      => /\ Subjects(r) = ContentRefs(cells[r].value)
         /\ ~isFormula(cells[r].value) => cells[r].subjects = <<>>

\* A valid cell summing a range of two cells, and a cell that held a
\* formula and holds a literal now.
C26_Witness ==
  \E r, q \in Refs :
    /\ cells[r].exists /\ ~cells[r].invalid
    /\ \E a, b \in Refs : cells[r].value = SumOf(a, b) /\ Subjects(r) = {a, b} /\ a # b
    /\ previous[q].exists /\ isFormula(previous[q].value) /\ previous[q].subjects # <<>>
    /\ ~isFormula(cells[q].value) /\ cells[q].subjects = <<>>

(* C27: a write rejected as circular changes the content, the evaluated     *)
(* value, invalid, the error message and modified of the written cell and   *)
(* nothing else: no edge of any cell, no evaluation, no content, evaluated  *)
(* value, invalid or evaluated flag of another existing cell.               *)

\* The write of the last step was rejected as circular.
RejectedWrite(a) == WriteStep(a) /\ \E i \in DOMAIN log' : log'[i].e = "circular"

C27_RejectedWriteFrame ==
  [][\A a \in Refs :
       RejectedWrite(a)
         => /\ log' = <<Event("circular", a, TRUE)>>
            /\ cells'[a].subjects = cells[a].subjects
            /\ cells'[a].observers = cells[a].observers
            /\ cells'[a].evaluated = clone(cells)[a].evaluated
            /\ \A x \in Refs \ {a} :
                 IF cells[x].exists
                 THEN cells'[x] = clone(cells)[x]
                 ELSE /\ cells'[x].subjects = <<>>
                      /\ cells'[x].observers = <<>>
                      /\ ~cells'[x].evaluated]_vars

\* A rejected write to a cell that has subjects and observers, other cells
\* holding values.
C27_Witness ==
  /\ op.kind = "write"
  /\ log = <<Event("circular", op.ref, TRUE)>>
  /\ cells[op.ref].invalid
  /\ Subjects(op.ref) # {} /\ Observers(op.ref) # {}
  /\ previous[op.ref].value # cells[op.ref].value
  /\ \E x \in Refs \ {op.ref} : cells[x].exists /\ cells[x].evaluatedValue.t = "num"

(* C28: when a write changes the content of a cell and the newly evaluated  *)
(* value is identical to the previous one, no observer is notified: no      *)
(* other cell is evaluated, and no other cell's evaluated value, invalid,   *)
(* modified or evaluated flag changes.                                      *)

\* The write of the last step to a left its evaluated value as it was.
SameValueWrite(a) ==
  /\ WriteStep(a)
  /\ cells[a].exists
  /\ \A i \in DOMAIN log' : log'[i].e # "circular"
  /\ cells'[a].evaluatedValue = cells[a].evaluatedValue

NobodyNotified(a) ==
  /\ \A i \in DOMAIN log' : log'[i].r = a
  /\ \A x \in Refs \ {a} :
       /\ cells'[x].evaluatedValue = clone(cells)[x].evaluatedValue
       /\ cells'[x].invalid = clone(cells)[x].invalid
       /\ cells'[x].modified = clone(cells)[x].modified
       /\ cells'[x].evaluated = clone(cells)[x].evaluated

C28_SameValueNoNotification ==
  [][\A a \in Refs : SameValueWrite(a) => NobodyNotified(a)]_vars

\* The same of the values other than NaN.
C28_ExceptNaN ==
  [][\A a \in Refs :
       (SameValueWrite(a) /\ cells[a].evaluatedValue # NaN) => NobodyNotified(a)]_vars

(* C29: for the same cell contents, the evaluated values and the validity   *)
(* of all cells after a write, and after the construction of a sheet from   *)
(* initial data, depend neither on the order in which a cell's observers    *)
(* are iterated nor on the order in which the initial entries are loaded.   *)

\* The sequences with the members of s in any order.
Orders(s) ==
  IF s = <<>> THEN {<<>>}
  ELSE {t \in [DOMAIN s -> Range(s)] : Range(t) = Range(s)}

SameOutcome(c, d) ==
  \A r \in Refs :
    /\ c[r].evaluatedValue = d[r].evaluatedValue
    /\ c[r].invalid = d[r].invalid

\* The sheet with the observers of x in the order p.
ObserversInOrder(c, x, p) == [c EXCEPT ![x].observers = p]

C29_LoadOrder ==
  \A data \in InitialCellData :
    (op.kind = "init" /\ cells = Sheet(data))
      => \A other \in Orders(data) : SameOutcome(Sheet(other), cells)

\* A step of the input handler agrees with the same step taken with the
\* observers of any one cell in any other order.
ObserverOrderIndependent ==
  \A a \in Refs :
    WriteStep(a) =>
      \A x \in Refs :
        \A p \in Orders(clone(cells)[x].observers) :
          SameOutcome(
            updateOrCreateCell(World(ObserversInOrder(clone(cells), x, p)),
                               a, op'.value).cells,
            cells')

C29_ObserverOrder == [][ObserverOrderIndependent]_vars

\* C29: every step leaves a sheet whose construction did not depend on the
\* order of the entries, and does not itself depend on the order of observers.
C29_OrderIndependent == [][C29_LoadOrder /\ ObserverOrderIndependent]_vars

(* C30: after the paste of a cut range, each target cell holds the raw      *)
(* content its source cell held before the operation started, and every     *)
(* source cell that is not also a target cell is empty.                     *)

\* The last step pasted the cut range from:to at ref.
CutStep(from, to, ref) ==
  /\ op'.kind = "cut" /\ op'.from = from /\ op'.to = to /\ op'.ref = ref
  /\ steps' = steps + 1

TargetsOf(from, to, ref) ==
  {pasteTarget(s, from, ref) : s \in Range(expandRange(from, to))}

\* new is the content old, an empty content being any of the empty ones.
HoldsContent(new, old) ==
  IF isEmpty(old) THEN isEmpty(new) ELSE new = old

RangeMoved(from, to, ref) ==
  /\ \A s \in Range(expandRange(from, to)) :
       pasteTarget(s, from, ref) \in Refs =>
         HoldsContent(cells'[pasteTarget(s, from, ref)].value, cells[s].value)
  /\ \A s \in Range(expandRange(from, to)) \ TargetsOf(from, to, ref) :
       isEmpty(cells'[s].value)

C30_RangeMove ==
  [][\A from, to, ref \in Refs :
       CutStep(from, to, ref) => RangeMoved(from, to, ref)]_vars

\* The same of a range pasted elsewhere, all of whose cells exist and none
\* of whose cells refers to a cell of the range or to a target cell.
PlainMove(from, to, ref) ==
  /\ ref # from
  /\ \A s \in Range(expandRange(from, to)) :
       /\ cells[s].exists
       /\ ContentRefs(cells[s].value)
            \cap (Range(expandRange(from, to)) \cup TargetsOf(from, to, ref)) = {}

C30_PlainMove ==
  [][\A from, to, ref \in Refs :
       (CutStep(from, to, ref) /\ PlainMove(from, to, ref))
         => RangeMoved(from, to, ref)]_vars

(* C31: a cell whose last content write was rejected as circular stays      *)
(* invalid with "Circular dependency" and evaluated value null until the    *)
(* next write that changes its own content, whatever is written to other    *)
(* cells in between.                                                        *)

\* The last operation was a write to x that was rejected as circular.
RejectedLast(x) ==
  /\ op.kind = "write" /\ op.ref = x
  /\ HasEvent("circular", x)

MarkedCircular(c) ==
  /\ c.invalid
  /\ c.errorMessage = CircularMsg
  /\ c.evaluatedValue = Null

C31_CircularStays ==
  [][\A x, a \in Refs :
       (a # x /\ RejectedLast(x) /\ WriteStep(a)) => MarkedCircular(cells'[x])]_vars

\* The same without the message: the cell stays invalid with value null.
C31_StaysInvalid ==
  [][\A x, a \in Refs :
       (a # x /\ RejectedLast(x) /\ WriteStep(a))
         => (cells'[x].invalid /\ cells'[x].evaluatedValue = Null)]_vars

(* C32: in every reachable state every coordinate among some cell's         *)
(* subjects or observers has a cell in the sheet, and no operation removes  *)
(* a cell from the sheet.                                                   *)

\* The coordinates that have a cell in the sheet c.
CellsOf(c) == {r \in Refs : c[r].exists}

\* Every subject and every observer of a cell of c is a cell of c.
EdgesHaveCells(c) ==
  \A r \in Refs :
    Range(c[r].subjects) \cup Range(c[r].observers) \subseteq CellsOf(c)

C32_CellsOnlyGrow ==
  [][/\ EdgesHaveCells(cells)
     /\ EdgesHaveCells(cells')
     /\ CellsOf(cells) \subseteq CellsOf(cells')]_vars

\* A cell moved away is still there, empty, and a cell that was only ever
\* referred to is there as a subject.
C32_Witness ==
  /\ op.kind = "cut" /\ op.from = op.to /\ op.ref # op.from
  /\ cells[op.from].exists /\ cells[op.from].value = Null
  /\ \E r, x \in Refs :
       /\ x \in Subjects(r)
       /\ cells[x].exists /\ cells[x].value = Undef

-----------------------------------------------------------------------------
(* Selective cloning: the input handler and Sheet.clone as they run when    *)
(* ENABLE_SELECTIVE_CLONING is true.  A cell the clone reuses keeps         *)
(* pointing to the sheet it was made in; the write below is made on a sheet *)
(* as constructed, all of whose cells point to it.                          *)

\* setSheet: the clone becomes the current sheet; the sheet it was made
\* from shares the cells reused with it.
setSheetReusing(W, reused) ==
  /\ cells' = W.cells
  /\ log' = W.log
  /\ marks' = W.marks
  /\ previous' = previousSheet(cells, W.cells, reused)

\* handleCellInputBlur(ref) with selective cloning, on the sheet as
\* constructed.
SelectiveWrite(ref, newValue) ==
  /\ op.kind = "init"
  /\ ~(~cells[ref].exists /\ newValue = Blank)
  /\ ~(cells[ref].exists /\ newValue = cells[ref].value)
  /\ setSheetReusing(
       updateOrCreateCellGiven(
         World(cloneSelective(cells, targetCells(cells, ref))), ref, newValue,
         IF cells[ref].exists THEN descendantObservers(cells, ref) ELSE {}),
       reusedCellsSelective(cells, targetCells(cells, ref)))
  /\ op' = Op("write", ref, newValue, BadRef, BadRef)
  /\ steps' = steps + 1
  /\ UNCHANGED conv

SelectiveNext ==
  \E ref \in Refs, newValue \in normalizeValue : SelectiveWrite(ref, newValue)

SelectiveSpec == Init /\ [][SelectiveNext]_vars

(* C33: with selective cloning, a write on the clone leaves every cell of   *)
(* the previous sheet unchanged in content, evaluated value, subjects and   *)
(* observers.                                                               *)
C33_SelectiveIsolation ==
  [][steps' = steps + 1 =>
       \A r \in Refs :
         cells[r].exists =>
           /\ previous'[r].value = cells[r].value
           /\ previous'[r].evaluatedValue = cells[r].evaluatedValue
           /\ previous'[r].subjects = cells[r].subjects
           /\ previous'[r].observers = cells[r].observers]_vars

\* The same of the cells the clone copies.
C33_CopiedCellsIsolated ==
  [][steps' = steps + 1 =>
       \A r \in targetCells(cells, op'.ref) : previous'[r] = cells[r]]_vars

=============================================================================
